---- MODULE Spec2Model ----
(***************************************************************************)
(* Model of bzl: the FuzzyList selector (widgets/fuzzy_list.py), the       *)
(* discovery cache, the query commands and the query output parser         *)
(* (bazel.py, ssh.py), and the application with its screens and refresh    *)
(* workers (app.py, screens/).                                             *)
(*                                                                         *)
(* Strings are sequences of one-character strings, so that lower(),        *)
(* strip(), split() and the substring test are computed character by       *)
(* character as Python computes them.                                      *)
(***************************************************************************)
EXTENDS Integers, Sequences, FiniteSets, TLC

VARIABLES
    all_items,   \* FuzzyList._all_items
    filter,      \* FuzzyList._filter
    cursor,      \* FuzzyList._cursor
    filtered,    \* FuzzyList._filtered
    last,        \* the last FuzzyList call, and for render what it drew
    now,         \* time.time(), in seconds
    dirExists,   \* whether the cache root _CACHE_DIR exists
    files,       \* the cache files under _CACHE_DIR, by cache key
    saved,       \* one save_cache call that returned, followed until the next
                 \* write or invalidate of its key
    call,        \* the last call of the cache API and what it returned
    asked,       \* the arguments, as passed, of the last load_cache and of
                 \* the save_cache that `saved` follows
    output,      \* the text handed to parse_query_output
    parsed,      \* what parse_query_output returned for it, and the lines
                 \* the text was made of
    request,     \* scope, kinds and SSH settings of a discovery request
    argv,        \* the command vectors built for it
    app,         \* BzlApp: its kinds and targets
    screens,     \* the screen stack, bottom first
    lists,       \* the items of the FuzzyList of ModuleScreen and GenruleScreen
    dialog,      \* KindSelectScreen: its _fetch_kinds worker and SelectionList
    loop,        \* what the control loop (the asyncio thread) is running
    threads,     \* the live threads of action_refresh_query workers
    main         \* main() of __main__.py: where it stands, what it read from
                 \* the cache, what the query gave, and the steps it has taken

fuzzyVars == <<all_items, filter, cursor, filtered, last>>

cacheVars == <<now, dirExists, files, saved, call>>

parseVars == <<output, parsed>>

cmdVars == <<request, argv>>

appVars == <<app, screens, lists, dialog, loop, threads>>

besidesFuzzy == <<cacheVars, asked, parseVars, cmdVars, appVars, main>>

besidesCache == <<fuzzyVars, asked, parseVars, cmdVars, appVars, main>>

besidesKeys == <<fuzzyVars, parseVars, cmdVars, appVars, main>>

besidesParse == <<fuzzyVars, cacheVars, asked, cmdVars, appVars, main>>

besidesCmd == <<fuzzyVars, cacheVars, asked, parseVars, appVars, main>>

\* what no step of the application touches
besidesApp == <<fuzzyVars, asked, parseVars, cmdVars, main>>

\* what no step of main() touches
besidesMain == <<fuzzyVars, asked, parseVars, cmdVars, screens, lists, dialog, loop, threads>>

vars == <<all_items, filter, cursor, filtered, last, now, dirExists, files, saved, call,
          asked, output, parsed, request, argv, app, screens, lists, dialog, loop,
          threads, main>>

-----------------------------------------------------------------------------
(* Bounds and input sets of the selector                                   *)

MaxItems == 4     \* longest source sequence handed to the widget
MaxHeight == 3    \* largest widget height (size.height) tried by render

\* Display strings the source sequences are built from: "aB", "ba".
ItemPool == { <<"a", "B">>, <<"b", "a">> }

\* Filter texts: empty, blank, one token (either case), a token that needs
\* case folding, several tokens, padded tokens, a token nothing matches.
QueryTexts ==
    { <<>>,
      <<" ">>,
      <<"a">>,
      <<"A", "b">>,
      <<"b", "a">>,
      <<"B", " ", "a">>,
      <<"a", "b", " ", " ", "a">>,
      <<" ", "b", "A", " ">>,
      <<"b", "b">> }

RECURSIVE SeqsUpTo(_, _)
SeqsUpTo(S, n) ==
    IF n = 0 THEN { <<>> }
    ELSE LET shorter == SeqsUpTo(S, n - 1)
         IN  shorter \cup { Append(s, x) : s \in { t \in shorter : Len(t) = n - 1 }, x \in S }

Sources == SeqsUpTo(ItemPool, MaxItems)

-----------------------------------------------------------------------------
(* Python string operations used by fuzzy_filter                           *)

\* str.lower() on one character of the alphabet
LowerChar(c) ==
    CASE c = "A" -> "a"
      [] c = "B" -> "b"
      [] OTHER -> c

\* str.lower()
Lower(s) == [i \in 1..Len(s) |-> LowerChar(s[i])]

\* str.isspace() on one character
IsSpace(c) == c \in {" ", "\t", "\n", "\r"}

\* str.strip(): drop leading and trailing whitespace
RECURSIVE LStrip(_)
LStrip(s) ==
    IF s # <<>> /\ IsSpace(Head(s)) THEN LStrip(Tail(s)) ELSE s

RECURSIVE RStrip(_)
RStrip(s) ==
    IF s # <<>> /\ IsSpace(s[Len(s)]) THEN RStrip(SubSeq(s, 1, Len(s) - 1)) ELSE s

Strip(s) == RStrip(LStrip(s))

\* str.split() without arguments: the maximal runs of non-whitespace, in order
RECURSIVE SplitFrom(_, _, _)
SplitFrom(s, cur, acc) ==
    IF s = <<>>
    THEN IF cur = <<>> THEN acc ELSE Append(acc, cur)
    ELSE IF IsSpace(Head(s))
         THEN SplitFrom(Tail(s), <<>>, IF cur = <<>> THEN acc ELSE Append(acc, cur))
         ELSE SplitFrom(Tail(s), Append(cur, Head(s)), acc)

Split(s) == SplitFrom(s, <<>>, <<>>)

\* the Python test `t in s` on strings
Contains(t, s) ==
    \E k \in 0..(Len(s) - Len(t)) : SubSeq(s, k + 1, k + Len(t)) = t

\* all(t in item.lower() for t in tokens)
AllTokensIn(tokens, item) ==
    \A i \in 1..Len(tokens) : Contains(tokens[i], Lower(item))

\* any() in place of all()
AnyTokenIn(tokens, item) ==
    \E i \in 1..Len(tokens) : Contains(tokens[i], Lower(item))

\* fuzzy_filter without query.lower()
FilterNoLower(query, items) ==
    IF Strip(query) = <<>>
    THEN items
    ELSE LET tokens == Split(query)
         IN  SelectSeq(items, LAMBDA item : AllTokensIn(tokens, item))

\* fuzzy_filter keeping the items that contain some token
FilterAnyToken(query, items) ==
    IF Strip(query) = <<>>
    THEN items
    ELSE LET tokens == Split(Lower(query))
         IN  SelectSeq(items, LAMBDA item : AnyTokenIn(tokens, item))

fuzzy_filter(query, items) ==
    IF Strip(query) = <<>>
    THEN items
    ELSE LET tokens == Split(Lower(query))
         IN  SelectSeq(items, LAMBDA item : AllTokensIn(tokens, item))

-----------------------------------------------------------------------------
(* FuzzyList.render: the virtual-scrolling window                          *)

Max(a, b) == IF a > b THEN a ELSE b
Min(a, b) == IF a < b THEN a ELSE b

\* Python's items[i]: 0-based, a negative i counts from the end, anything
\* else raises IndexError.
PyIndex(items, i) ==
    IF 0 <= i /\ i < Len(items) THEN items[i + 1]
    ELSE IF -Len(items) <= i /\ i < 0 THEN items[Len(items) + i + 1]
    ELSE "IndexError"

\* The rows appended for i in range(start, end); idx is the 0-based index i.
Rows(start, end, cur, items) ==
    [k \in 1..Max(0, end - start) |->
        [idx |-> start + k - 1,
         item |-> PyIndex(items, start + k - 1),
         sel |-> (start + k - 1 = cur)]]

\* render with end = start + height, not cut at len(items)
RenderNoClampEnd(cur, sizeHeight, items) ==
    LET height == Max(1, sizeHeight)
    IN  IF items = <<>>
        THEN [height |-> height, nomatch |-> TRUE, start |-> 0, end |-> 0,
              rows |-> <<>>, pad |-> 0]
        ELSE LET half   == height \div 2
                 start0 == Max(0, cur - half)
                 end    == start0 + height
                 start  == IF end - start0 < height THEN Max(0, end - height) ELSE start0
             IN  [height |-> height, nomatch |-> FALSE, start |-> start, end |-> end,
                  rows |-> Rows(start, end, cur, items),
                  pad |-> height - (end - start)]

\* render with half = height, not height // 2
RenderHalfIsHeight(cur, sizeHeight, items) ==
    LET height == Max(1, sizeHeight)
    IN  IF items = <<>>
        THEN [height |-> height, nomatch |-> TRUE, start |-> 0, end |-> 0,
              rows |-> <<>>, pad |-> 0]
        ELSE LET half   == height
                 start0 == Max(0, cur - half)
                 end    == Min(Len(items), start0 + height)
                 start  == IF end - start0 < height THEN Max(0, end - height) ELSE start0
             IN  [height |-> height, nomatch |-> FALSE, start |-> start, end |-> end,
                  rows |-> Rows(start, end, cur, items),
                  pad |-> height - (end - start)]

\* render() for a widget of height sizeHeight: what it draws.
Render(cur, sizeHeight, items) ==
    LET height == Max(1, sizeHeight)
    IN  IF items = <<>>
        THEN [height |-> height, nomatch |-> TRUE, start |-> 0, end |-> 0,
              rows |-> <<>>, pad |-> 0]
        ELSE LET half   == height \div 2
                 start0 == Max(0, cur - half)
                 end    == Min(Len(items), start0 + height)
                 start  == IF end - start0 < height THEN Max(0, end - height) ELSE start0
             IN  [height |-> height, nomatch |-> FALSE, start |-> start, end |-> end,
                  rows |-> Rows(start, end, cur, items),
                  pad |-> height - (end - start)]

-----------------------------------------------------------------------------
(* The discovery cache (bazel.py): inputs                                  *)

MaxTime == 3      \* the clock runs from 0 to MaxTime; ttl_seconds from -1 to MaxTime

_CACHE_VERSION == 1

\* One run passes the same host_key and scope to every cache call
\* (__main__.py:131, app.py:126-133): a local run, host = None.
NoHost == "None"
Hosts == { NoHost }
Scopes == { "//..." }
KindLists == { <<"genrule", "py_test">>, <<"py_test", "genrule">> }
Ttls == (-1)..MaxTime

\* TargetIndex values: namespace -> item names
EmptyIndex == [m \in {} |-> <<>>]
IndexA == [m \in {"//a"} |-> <<"x", "y">>]
IndexB == [m \in {"//a", "//c"} |-> IF m = "//a" THEN <<"x">> ELSE <<"z">>]
TargetIndexes == { EmptyIndex, IndexA, IndexB }

-----------------------------------------------------------------------------
(* Cache key                                                               *)

\* Python's order on the kind strings used here
KindRank(k) == IF k = "genrule" THEN 1 ELSE 2

\* sorted(kinds)
RECURSIVE Insert(_, _)
Insert(k, sortedKinds) ==
    IF sortedKinds = <<>> THEN <<k>>
    ELSE IF KindRank(k) <= KindRank(Head(sortedKinds))
         THEN <<k>> \o sortedKinds
         ELSE <<Head(sortedKinds)>> \o Insert(k, Tail(sortedKinds))

\* the kinds joined in the order given, without sorted()
Unsorted(kinds) == kinds

RECURSIVE Sorted(_)
Sorted(kinds) ==
    IF kinds = <<>> THEN <<>> ELSE Insert(Head(kinds), Sorted(Tail(kinds)))

\* host or 'local'
HostOrLocal(host) == IF host = NoHost \/ host = "" THEN "local" ELSE host

\* _cache_key: sha1 of "<host or 'local'>:<scope>:<sorted kinds, comma-joined>".
\* The digest is kept as the triple it is computed from (no two of the
\* strings used here give the same text, and sha1 is taken as injective).
CacheKeyOf(host, scope, kinds) == <<HostOrLocal(host), scope, Sorted(kinds)>>

CacheKeys == { CacheKeyOf(h, s, k) : h \in Hosts, s \in Scopes, k \in KindLists }

-----------------------------------------------------------------------------
(* Cache files                                                             *)

\* What a path under _CACHE_DIR holds.
\*   state "nofile"     : no such file
\*   state "unreadable" : read_text() raises
\*   state "text"       : text that json.loads rejects
\*   state "json"       : a JSON document; isObject says whether it is an
\*                        object, has is the set of its keys, and tsNumeric
\*                        whether its "timestamp" is a number
Doc(state, isObject, has, version, tsNumeric, timestamp, targets) ==
    [state |-> state, isObject |-> isObject, has |-> has, version |-> version,
     tsNumeric |-> tsNumeric, timestamp |-> timestamp, targets |-> targets]

NoFile == Doc("nofile", FALSE, {}, 0, FALSE, 0, EmptyIndex)
Unreadable == Doc("unreadable", FALSE, {}, 0, FALSE, 0, EmptyIndex)
BadText == Doc("text", FALSE, {}, 0, FALSE, 0, EmptyIndex)
NonObject == Doc("json", FALSE, {}, 0, FALSE, 0, EmptyIndex)

AllFields == {"version", "host", "scope", "kinds", "timestamp", "targets"}

\* a record as a later format version would store it
RecordV2(timestamp, targets) ==
    Doc("json", TRUE, AllFields, _CACHE_VERSION + 1, TRUE, timestamp, targets)

\* the document save_cache serialises (json.dumps of the dict)
Record(timestamp, targets) ==
    Doc("json", TRUE, AllFields, _CACHE_VERSION, TRUE, timestamp, targets)

\* Files left by something other than a successful save_cache of this
\* version: a file without read permission, a truncated or garbled file, a
\* JSON array, a record of another format version or without one, a record
\* lacking "timestamp" or "targets", a record whose timestamp is a string.
ForeignDocs ==
    { Unreadable, BadText, NonObject,
      Doc("json", TRUE, AllFields, _CACHE_VERSION + 1, TRUE, 0, IndexA),
      Doc("json", TRUE, AllFields \ {"version"}, 0, TRUE, 0, IndexA),
      Doc("json", TRUE, AllFields \ {"timestamp"}, _CACHE_VERSION, FALSE, 0, IndexA),
      Doc("json", TRUE, AllFields \ {"targets"}, _CACHE_VERSION, TRUE, 0, EmptyIndex),
      Doc("json", TRUE, AllFields, _CACHE_VERSION, FALSE, 0, IndexA) }

-----------------------------------------------------------------------------
(* load_cache                                                              *)

Miss == [hit |-> FALSE, targets |-> EmptyIndex, timestamp |-> 0]
Entry(targets, timestamp) == [hit |-> TRUE, targets |-> targets, timestamp |-> timestamp]

\* the test below with < in place of <=
TtlDisabledStrict(ttl) == ttl < 0

\* if ttl_seconds <= 0: return None
TtlDisabled(ttl) == ttl <= 0

\* the test below with >= in place of >
IsStaleAtBoundary(age, ttl) == age >= ttl

\* if age > ttl_seconds: return None
IsStale(age, ttl) == age > ttl

\* The body of load_cache once the path is known: path.exists(), then the
\* try block, where every exception becomes None.
ReadEntry(doc, t, ttl) ==
    IF doc.state = "nofile" THEN Miss                       \* not path.exists()
    ELSE IF doc.state = "unreadable" THEN Miss              \* read_text raises
    ELSE IF doc.state = "text" THEN Miss                    \* json.loads raises
    ELSE IF ~doc.isObject THEN Miss                         \* data.get raises
    ELSE IF "version" \notin doc.has THEN Miss              \* get() gives None
    ELSE IF doc.version # _CACHE_VERSION THEN Miss
    ELSE IF "timestamp" \notin doc.has THEN Miss            \* KeyError
    ELSE IF ~doc.tsNumeric THEN Miss                        \* TypeError
    ELSE IF IsStale(t - doc.timestamp, ttl) THEN Miss
    ELSE IF "targets" \notin doc.has THEN Miss              \* KeyError
    ELSE Entry(doc.targets, doc.timestamp)

\* What a call of the cache API leaves in `call`.
Call(op, key, ttl, raised, res) ==
    [op |-> op, key |-> key, ttl |-> ttl, raised |-> raised, hit |-> res.hit,
     targets |-> res.targets, timestamp |-> res.timestamp]

NoCall == [op |-> "none", key |-> <<>>, ttl |-> 0, raised |-> FALSE, hit |-> FALSE,
           targets |-> EmptyIndex, timestamp |-> 0]

\* _cache_path: _CACHE_DIR.mkdir(parents=True, exist_ok=True). With the
\* directory there it does nothing; without it, it creates it (made) or
\* raises OSError (no permission, a file in the way, read-only disk).
MkdirOk(made) == dirExists \/ made

MkdirOutcomes == IF dirExists THEN {TRUE} ELSE BOOLEAN

load_cache(host, scope, kinds, ttl, made) ==
    LET key == CacheKeyOf(host, scope, kinds)
    IN  IF TtlDisabled(ttl)
        THEN /\ call' = Call("load_cache", key, ttl, FALSE, Miss)
             /\ UNCHANGED <<now, dirExists, files, saved>>
        ELSE IF ~MkdirOk(made)
        THEN \* the OSError of mkdir leaves load_cache: it is raised before the try
             /\ call' = Call("load_cache", key, ttl, TRUE, Miss)
             /\ UNCHANGED <<now, dirExists, files, saved>>
        ELSE /\ dirExists' = TRUE
             /\ call' = Call("load_cache", key, ttl, FALSE,
                             ReadEntry(files[key], now, ttl))
             /\ UNCHANGED <<now, files, saved>>

-----------------------------------------------------------------------------
(* save_cache and bust_cache                                               *)

NoSave == [done |-> FALSE, key |-> <<>>, wrote |-> FALSE, targets |-> EmptyIndex, at |-> 0]

\* `saved` after a write or invalidate of key: a followed save of that key ends
Forget(key) == IF saved.done /\ saved.key = key THEN NoSave ELSE saved

\* path.write_text(json.dumps(...)) inside try/except: it writes the record
\* (fault "none"), fails to open the file and leaves it as it was (fault
\* "open"), or fails while writing and leaves a truncated file (fault
\* "write"); the exception is swallowed.
WriteFaults == { "none", "open", "write" }

\* write_text storing a record of another format version
WrittenOtherVersion(old, fault, timestamp, targets) ==
    IF fault = "none" THEN RecordV2(timestamp, targets)
    ELSE IF fault = "open" THEN old
    ELSE BadText

Written(old, fault, timestamp, targets) ==
    IF fault = "none" THEN Record(timestamp, targets)
    ELSE IF fault = "open" THEN old
    ELSE BadText

save_cache(host, scope, kinds, targets, made, fault, follow) ==
    LET key == CacheKeyOf(host, scope, kinds)
    IN  IF ~MkdirOk(made)
        THEN \* _cache_path is called before the try: the OSError propagates
             /\ call' = Call("save_cache", key, 0, TRUE, Miss)
             /\ UNCHANGED <<now, dirExists, files, saved>>
        ELSE /\ dirExists' = TRUE
             /\ files' = [files EXCEPT ![key] = Written(files[key], fault, now, targets)]
             /\ saved' = IF follow
                         THEN [done |-> TRUE, key |-> key, wrote |-> (fault = "none"),
                               targets |-> targets, at |-> now]
                         ELSE Forget(key)
             /\ call' = Call("save_cache", key, 0, FALSE, Miss)
             /\ UNCHANGED now

bust_cache(host, scope, kinds, made) ==
    LET key == CacheKeyOf(host, scope, kinds)
    IN  IF ~MkdirOk(made)
        THEN /\ call' = Call("bust_cache", key, 0, TRUE, Miss)
             /\ UNCHANGED <<now, dirExists, files, saved>>
        ELSE /\ dirExists' = TRUE
             /\ files' = [files EXCEPT ![key] = NoFile]     \* unlink(missing_ok=True)
             /\ saved' = Forget(key)
             /\ call' = Call("bust_cache", key, 0, FALSE, Miss)
             /\ UNCHANGED now

-----------------------------------------------------------------------------
(* Environment of the cache                                                *)

\* time passes
Tick ==
    /\ now < MaxTime
    /\ now' = now + 1
    /\ call' = NoCall
    /\ UNCHANGED <<dirExists, files, saved>>

\* Something other than this process's save_cache changes a cache file.
ExternalWrite(key, doc) ==
    /\ dirExists
    /\ files' = [files EXCEPT ![key] = doc]
    /\ saved' = Forget(key)
    /\ call' = NoCall
    /\ UNCHANGED <<now, dirExists>>

\* no cache call whose arguments are followed
NoAsk == [readAs |-> <<>>, wroteAs |-> <<>>]

\* the control loop between two messages
LoopIdle == [pc |-> "idle", out |-> EmptyIndex, ok |-> TRUE]

\* no KindSelectScreen is mounted
NoDialog == [fetch |-> "none", offered |-> {}, selected |-> {}]

\* no BzlApp has been built
AppIdle ==
    /\ app = [kinds |-> <<>>, targets |-> EmptyIndex]
    /\ screens = <<>>
    /\ lists = [module |-> <<>>, of |-> "", genrule |-> <<>>]
    /\ dialog = NoDialog
    /\ loop = LoopIdle
    /\ threads = <<>>

\* main() is not running
MainIdle ==
    [pc |-> "none", kinds |-> <<>>, ttl |-> 0, before |-> NoFile, hit |-> FALSE,
     ok |-> FALSE, targets |-> EmptyIndex, steps |-> <<>>]

\* no command built yet
NoArgv == [local |-> <<>>, remote |-> <<>>]

\* no discovery request yet
CmdIdle ==
    /\ request = [scope |-> <<>>, kinds |-> <<>>, host |-> <<>>, remote_dir |-> <<>>]
    /\ argv = NoArgv

\* no text has been handed to the parser
ParseIdle ==
    /\ output = <<>>
    /\ parsed = [stage |-> "none", lines |-> <<>>, index |-> <<>>, first |-> <<>>]

\* a selector that is built and left alone
FuzzyIdle ==
    /\ all_items = <<>>
    /\ filter = <<>>
    /\ cursor = 0
    /\ filtered = <<>>
    /\ last = [op |-> "init"]

\* The cache root is there or not; no cache file yet.
CacheInit ==
    /\ now = 0
    /\ dirExists \in BOOLEAN
    /\ files = [k \in CacheKeys |-> NoFile]
    /\ saved = NoSave
    /\ call = NoCall
    /\ asked = NoAsk
    /\ main = MainIdle
    /\ FuzzyIdle
    /\ ParseIdle
    /\ CmdIdle
    /\ AppIdle

CacheNext ==
    \/ \E h \in Hosts, s \in Scopes, k \in KindLists, ttl \in Ttls, made \in MkdirOutcomes :
          load_cache(h, s, k, ttl, made) /\ UNCHANGED besidesCache
    \/ \E h \in Hosts, s \in Scopes, k \in KindLists, t \in TargetIndexes,
          made \in MkdirOutcomes, fault \in WriteFaults, follow \in BOOLEAN :
          save_cache(h, s, k, t, made, fault, follow) /\ UNCHANGED besidesCache
    \/ \E h \in Hosts, s \in Scopes, k \in KindLists, made \in MkdirOutcomes :
          bust_cache(h, s, k, made) /\ UNCHANGED besidesCache
    \/ Tick /\ UNCHANGED besidesCache
    \/ \E key \in CacheKeys, doc \in ForeignDocs :
          ExternalWrite(key, doc) /\ UNCHANGED besidesCache

SpecCache == CacheInit /\ [][CacheNext]_vars

-----------------------------------------------------------------------------
(* The cache under several keys                                            *)

\* Identity keys of the callers: no host (local run) and one SSH host.
KeyHosts == { NoHost, "build1" }

\* ttl values of the readers: disabled, enabled (no time passes here)
KeyTtls == { 0, 1 }

KeyTargets == { IndexA, IndexB }

\* the file names _cache_path derives for these callers
KeyPool == { CacheKeyOf(h, s, k) : h \in KeyHosts, s \in Scopes, k \in KindLists }

KeysInit ==
    /\ now = 0
    /\ dirExists \in BOOLEAN
    /\ files = [k \in KeyPool |-> NoFile]
    /\ saved = NoSave
    /\ call = NoCall
    /\ asked = NoAsk
    /\ main = MainIdle
    /\ FuzzyIdle
    /\ ParseIdle
    /\ CmdIdle
    /\ AppIdle

\* The calls of the cache API, remembering the arguments as they were passed.
KeysNext ==
    \/ \E h \in KeyHosts, s \in Scopes, k \in KindLists, ttl \in KeyTtls,
          made \in MkdirOutcomes :
          /\ load_cache(h, s, k, ttl, made)
          /\ asked' = [asked EXCEPT !.readAs = <<h, s, k>>]
          /\ UNCHANGED besidesKeys
    \/ \E h \in KeyHosts, s \in Scopes, k \in KindLists, t \in KeyTargets,
          made \in MkdirOutcomes, fault \in WriteFaults, follow \in BOOLEAN :
          /\ save_cache(h, s, k, t, made, fault, follow)
          /\ asked' = [readAs |-> <<>>,
                       wroteAs |-> IF ~saved'.done THEN <<>>
                                   ELSE IF follow /\ MkdirOk(made) THEN <<h, s, k>>
                                   ELSE asked.wroteAs]
          /\ UNCHANGED besidesKeys
    \/ \E h \in KeyHosts, s \in Scopes, k \in KindLists, made \in MkdirOutcomes :
          /\ bust_cache(h, s, k, made)
          /\ asked' = [readAs |-> <<>>,
                       wroteAs |-> IF saved'.done THEN asked.wroteAs ELSE <<>>]
          /\ UNCHANGED besidesKeys

SpecKeys == KeysInit /\ [][KeysNext]_vars

-----------------------------------------------------------------------------
(* parse_query_output                                                      *)

MaxLines == 3     \* most lines in a text handed to the parser

\* Lines of query output: labels, the same label padded, a label ending in
\* ':', a label with two ':', a label without ':', a line with ':' that is
\* no label, a blank line.
LinePool ==
    { <<"/", "/", "a", ":", "y">>,
      <<"/", "/", "a", ":", "x">>,
      <<" ", "/", "/", "b", ":", "x", "\t">>,
      <<"/", "/", "a", ":">>,
      <<"/", "/", "a", ":", "b", ":", "x">>,
      <<"/", "/", "a", "b">>,
      <<"a", ":", " ", "/", "/", "x">>,
      <<" ">> }

\* line terminators the tool's stdout may carry
LineEnds == { <<"\n">>, <<"\r", "\n">> }

\* the lines, each followed by eol; the last one only if `closed`
RECURSIVE JoinLines(_, _, _)
JoinLines(lines, eol, closed) ==
    IF lines = <<>> THEN <<>>
    ELSE IF Len(lines) = 1 THEN Head(lines) \o (IF closed THEN eol ELSE <<>>)
    ELSE Head(lines) \o eol \o JoinLines(Tail(lines), eol, closed)

\* str.splitlines(): a line ends at "\n", "\r" or "\r\n"; a text that ends
\* with a terminator has no empty last line
RECURSIVE SplitLinesFrom(_, _, _)
SplitLinesFrom(s, cur, acc) ==
    IF s = <<>>
    THEN IF cur = <<>> THEN acc ELSE Append(acc, cur)
    ELSE IF Head(s) = "\r" /\ Len(s) >= 2 /\ s[2] = "\n"
         THEN SplitLinesFrom(Tail(Tail(s)), <<>>, Append(acc, cur))
    ELSE IF Head(s) \in {"\n", "\r"}
         THEN SplitLinesFrom(Tail(s), <<>>, Append(acc, cur))
    ELSE SplitLinesFrom(Tail(s), Append(cur, Head(s)), acc)

SplitLines(s) == SplitLinesFrom(s, <<>>, <<>>)

\* str.startswith
StartsWith(s, prefix) ==
    Len(s) >= Len(prefix) /\ SubSeq(s, 1, Len(prefix)) = prefix

\* line.split(":", 1): cut at the first ':'
SplitAtFirst(line) ==
    LET i == CHOOSE k \in 1..Len(line) :
                 line[k] = ":" /\ \A j \in 1..(k - 1) : line[j] # ":"
    IN  <<SubSeq(line, 1, i - 1), SubSeq(line, i + 1, Len(line))>>

\* line.rsplit(":", 1) for a line that contains ':': cut at the last ':'
RSplit(line) ==
    LET i == CHOOSE k \in 1..Len(line) :
                 line[k] = ":" /\ \A j \in (k + 1)..Len(line) : line[j] # ":"
    IN  <<SubSeq(line, 1, i - 1), SubSeq(line, i + 1, Len(line))>>

\* targets[module].append(rule) on the defaultdict(list), kept as the
\* sequence of its (module, rules) items in insertion order
AppendRule(items, module, rule) ==
    IF \E i \in 1..Len(items) : items[i][1] = module
    THEN [i \in 1..Len(items) |->
            IF items[i][1] = module
            THEN <<module, Append(items[i][2], rule)>>
            ELSE items[i]]
    ELSE Append(items, <<module, <<rule>>>>)

\* the for loop over output.splitlines()
RECURSIVE Collect(_, _)
Collect(lines, items) ==
    IF lines = <<>> THEN items
    ELSE LET line == Strip(Head(lines))
         IN  IF line = <<>> \/ ~StartsWith(line, <<"/", "/">>)
             THEN Collect(Tail(lines), items)
             ELSE IF ~Contains(<<":">>, line)
             THEN Collect(Tail(lines), items)
             ELSE LET cut == RSplit(line)
                  IN  Collect(Tail(lines), AppendRule(items, cut[1], cut[2]))

\* ord() of the characters in use
Ord(c) ==
    CASE c = "\t" -> 9
      [] c = "\n" -> 10
      [] c = "\r" -> 13
      [] c = " " -> 32
      [] c = "/" -> 47
      [] c = ":" -> 58
      [] c = "a" -> 97
      [] c = "b" -> 98
      [] c = "x" -> 120
      [] c = "y" -> 121

\* s < t on Python strings: by code point, a proper prefix first
RECURSIVE StrLess(_, _)
StrLess(s, t) ==
    IF t = <<>> THEN FALSE
    ELSE IF s = <<>> THEN TRUE
    ELSE IF Ord(Head(s)) # Ord(Head(t)) THEN Ord(Head(s)) < Ord(Head(t))
    ELSE StrLess(Tail(s), Tail(t))

RECURSIVE InsertStr(_, _)
InsertStr(x, strs) ==
    IF strs = <<>> THEN <<x>>
    ELSE IF StrLess(x, Head(strs)) THEN <<x>> \o strs
    ELSE <<Head(strs)>> \o InsertStr(x, Tail(strs))

\* the rules of a module, last appended first
RECURSIVE Reversed(_)
Reversed(strs) ==
    IF strs = <<>> THEN <<>> ELSE Append(Reversed(Tail(strs)), Head(strs))

\* sorted(rules)
RECURSIVE SortedStrs(_)
SortedStrs(strs) ==
    IF strs = <<>> THEN <<>> ELSE InsertStr(Head(strs), SortedStrs(Tail(strs)))

RECURSIVE InsertItem(_, _)
InsertItem(x, items) ==
    IF items = <<>> THEN <<x>>
    ELSE IF StrLess(x[1], Head(items)[1]) THEN <<x>> \o items
    ELSE <<Head(items)>> \o InsertItem(x, Tail(items))

\* targets.items() as the loop filled it, without sorted()
InsertionOrder(items) == items

\* sorted(targets.items()): the modules are distinct, so they decide the order
RECURSIVE SortedItems(_)
SortedItems(items) ==
    IF items = <<>> THEN <<>> ELSE InsertItem(Head(items), SortedItems(Tail(items)))

\* The dict parse_query_output returns, as the sequence of its
\* (module, rules) items in the order the dict holds them.
parse_query_output(text) ==
    LET targets == SortedItems(Collect(SplitLines(text), <<>>))
    IN  [i \in 1..Len(targets) |-> <<targets[i][1], SortedStrs(targets[i][2])>>]

\* One "module:rule" line per rule of the index, in the order of the index.
RECURSIVE IndexLines(_)
IndexLines(index) ==
    IF index = <<>> THEN <<>>
    ELSE LET module == Head(index)[1]
             rules == Head(index)[2]
         IN  [i \in 1..Len(rules) |-> module \o <<":">> \o rules[i]]
                \o IndexLines(Tail(index))

\* A text of up to MaxLines lines, with either terminator, the last line
\* closed or not.
ParseInit ==
    /\ \E lines \in SeqsUpTo(LinePool, MaxLines), eol \in LineEnds, closed \in BOOLEAN :
          /\ output = JoinLines(lines, eol, closed)
          /\ parsed = [stage |-> "text", lines |-> lines, index |-> <<>>, first |-> <<>>]
    /\ all_items = <<>>
    /\ filter = <<>>
    /\ cursor = 0
    /\ filtered = <<>>
    /\ last = [op |-> "init"]
    /\ now = 0
    /\ dirExists = FALSE
    /\ files = [k \in CacheKeys |-> NoFile]
    /\ saved = NoSave
    /\ call = NoCall
    /\ asked = NoAsk
    /\ main = MainIdle
    /\ CmdIdle
    /\ AppIdle

\* parse_query_output(output)
Parse ==
    /\ parsed.stage \in {"text", "rewritten"}
    /\ LET index == parse_query_output(output)
       IN  parsed' = [stage |-> IF parsed.stage = "text" THEN "parsed" ELSE "reparsed",
                      lines |-> parsed.lines,
                      index |-> index,
                      first |-> IF parsed.stage = "text" THEN index ELSE parsed.first]
    /\ UNCHANGED output

\* the index written back as text, one "module:rule" line per rule
Reserialize ==
    /\ parsed.stage = "parsed"
    /\ output' = JoinLines(IndexLines(parsed.index), <<"\n">>, TRUE)
    /\ parsed' = [parsed EXCEPT !.stage = "rewritten", !.lines = IndexLines(parsed.index)]

ParseNext ==
    \/ Parse /\ UNCHANGED besidesParse
    \/ Reserialize /\ UNCHANGED besidesParse

SpecParse == ParseInit /\ [][ParseNext]_vars

-----------------------------------------------------------------------------
(* Query commands: query_local and SSHConfig.build_query_cmd                *)

MaxKinds == 3     \* most kinds in a kind list

\* kinds "genrule" and "test"
KindPool == { <<"g", "e", "n", "r", "u", "l", "e">>, <<"t", "e", "s", "t">> }

\* scopes "//..." and "//a:*"
CmdScopes == { <<"/", "/", ".", ".", ".">>, <<"/", "/", "a", ":", "*">> }

\* SSH host "u@h"
CmdHosts == { <<"u", "@", "h">> }

\* remote directories "/r", "/my repo" and "/a'b" (from_args puts the
\* working directory in place of an empty one)
RemoteDirs == { <<"/", "r">>, <<"/", "m", "y", " ", "r", "e", "p", "o">>, <<"/", "a", "'", "b">> }

\* the non-empty kind lists of up to MaxKinds kinds
CmdKindLists == SeqsUpTo(KindPool, MaxKinds) \ { <<>> }

\* sep.join(strs)
RECURSIVE Join(_, _)
Join(sep, strs) ==
    IF strs = <<>> THEN <<>>
    ELSE IF Len(strs) = 1 THEN Head(strs)
    ELSE Head(strs) \o sep \o Join(sep, Tail(strs))

\* kind_expr of query_local: "|".join(kinds) if len(kinds) > 1 else kinds[0]
LocalKindExpr(kindList) ==
    IF Len(kindList) > 1 THEN Join(<<"|">>, kindList) ELSE kindList[1]

\* kind_expr joined with "," in place of "|"
CommaKindExpr(kindList) ==
    IF Len(kindList) > 1 THEN Join(<<",">>, kindList) ELSE kindList[1]

\* kind_expr of build_query_cmd: "|".join(kinds) if len(kinds) > 1 else kinds[0]
RemoteKindExpr(kindList) ==
    IF Len(kindList) > 1 THEN Join(<<"|">>, kindList) ELSE kindList[1]

\* query_local's cmd: ["bazel", "query", f"kind('{kind_expr}', {scope})"]
LocalCmd(queryScope, kindList) ==
    << <<"b", "a", "z", "e", "l">>, <<"q", "u", "e", "r", "y">>,
       <<"k", "i", "n", "d", "(", "'">> \o LocalKindExpr(kindList) \o <<"'", ",", " ">> \o queryScope \o <<")">> >>

\* the characters shlex.quote leaves alone: [A-Za-z0-9_@%+=:,./-]
IsShellSafe(c) == c \in { "/", "r", "m", "y", "e", "p", "o", "a", "b" }

\* s.replace("'", "'\"'\"'")
RECURSIVE EscapeQuotes(_)
EscapeQuotes(s) ==
    IF s = <<>> THEN <<>>
    ELSE (IF Head(s) = "'" THEN <<"'", "\"", "'", "\"", "'">> ELSE <<Head(s)>>) \o EscapeQuotes(Tail(s))

\* shlex.quote
ShlexQuote(s) ==
    IF s = <<>> THEN <<"'", "'">>
    ELSE IF \A i \in 1..Len(s) : IsShellSafe(s[i]) THEN s
    ELSE <<"'">> \o EscapeQuotes(s) \o <<"'">>

\* SSHConfig.build_query_cmd:
\* ["ssh", host, f"cd {quote(remote_dir)} && bazel query \"kind('{kind_expr}', {scope})\""]
build_query_cmd(sshHost, remoteDir, queryScope, kindList) ==
    << <<"s", "s", "h">>, sshHost,
       <<"c", "d", " ">> \o ShlexQuote(remoteDir) \o <<" ", "&", "&", " ", "b", "a", "z", "e", "l", " ", "q", "u", "e", "r", "y", " ", "\"">>
          \o <<"k", "i", "n", "d", "(", "'">> \o RemoteKindExpr(kindList) \o <<"'", ",", " ">> \o queryScope
          \o <<")", "\"">> >>

\* One discovery request: the scope and kinds of the run and the SSH
\* settings it has.
CmdInit ==
    /\ \E queryScope \in CmdScopes, kindList \in CmdKindLists, sshHost \in CmdHosts,
          remoteDir \in RemoteDirs :
          request = [scope |-> queryScope, kinds |-> kindList, host |-> sshHost,
                     remote_dir |-> remoteDir]
    /\ argv = NoArgv
    /\ all_items = <<>>
    /\ filter = <<>>
    /\ cursor = 0
    /\ filtered = <<>>
    /\ last = [op |-> "init"]
    /\ now = 0
    /\ dirExists = FALSE
    /\ files = [k \in CacheKeys |-> NoFile]
    /\ saved = NoSave
    /\ call = NoCall
    /\ asked = NoAsk
    /\ main = MainIdle
    /\ ParseIdle
    /\ AppIdle

\* query_local(scope, kinds) up to subprocess.run(cmd)
QueryLocal ==
    /\ argv' = [argv EXCEPT !.local = LocalCmd(request.scope, request.kinds)]
    /\ UNCHANGED request

\* query_ssh(ssh_config, scope, kinds) up to subprocess.run(cmd)
QuerySsh ==
    /\ argv' = [argv EXCEPT !.remote = build_query_cmd(request.host, request.remote_dir,
                                                       request.scope, request.kinds)]
    /\ UNCHANGED request

CmdNext ==
    \/ QueryLocal /\ UNCHANGED besidesCmd
    \/ QuerySsh /\ UNCHANGED besidesCmd

SpecCmd == CmdInit /\ [][CmdNext]_vars

-----------------------------------------------------------------------------
(* The application: BzlApp, its screens and its refresh workers             *)
(*                                                                         *)
(* Handlers and actions of the screens run on the control loop, one at a   *)
(* time. A method under @work(thread=True) runs in a thread of its own;    *)
(* exclusive=True marks the earlier workers of the same screen cancelled,  *)
(* which stops no thread: the function never looks at is_cancelled, so a   *)
(* thread that has started runs to its end. call_from_thread hands a       *)
(* callback to the control loop and waits until the loop has run it.       *)

MaxThreads == 1   \* refresh worker threads alive at the same time

\* the kinds bazel can report
KindNames == { "genrule", "py_test" }

\* a selection as the list SelectionList.selected gives (option order)
KindList(selection) ==
    SelectSeq(<<"genrule", "py_test">>, LAMBDA k : k \in selection)

\* set(kinds)
KindSet(kindList) == { kindList[i] : i \in 1..Len(kindList) }

\* the option the user toggles in the SelectionList
Toggled == { "py_test" }

\* the values BzlApp.kinds takes: ["genrule"], ["genrule", "py_test"]
AppKinds == { KindList({"genrule"} \cup sel) : sel \in SUBSET Toggled }

\* self._cache_key and self.scope of the run
AppHost == NoHost
AppScope == "//..."

\* the cache file of the run for a value of BzlApp.kinds
AppKey(kindList) == CacheKeyOf(AppHost, AppScope, kindList)

\* the targets of the workspace that are of the kinds asked for
Found(kindList) == IF "py_test" \in KindSet(kindList) THEN IndexB ELSE IndexA

\* What a query for kindList gives: it raises (non-zero exit), or its
\* output parses to no target, or to the targets of these kinds.
QueryOutcomes(kindList) ==
    { [ok |-> FALSE, index |-> EmptyIndex],
      [ok |-> TRUE, index |-> EmptyIndex],
      [ok |-> TRUE, index |-> Found(kindList)] }

\* list(targets.keys()) for the indexes in use
Keys(index) ==
    IF index = EmptyIndex THEN <<>>
    ELSE IF index = IndexA THEN <<"//a">>
    ELSE <<"//a", "//c">>

\* targets.get(module, [])
RulesOf(index, module) ==
    IF module \in DOMAIN index THEN index[module] ELSE <<>>

\* __main__ has filled the cache root and built BzlApp(targets, kinds) from
\* a record it read or wrote; on_mount has pushed ModuleScreen, whose
\* compose gives the list the namespaces.
AppInit ==
    /\ \E kindList \in AppKinds :
          /\ app = [kinds |-> kindList, targets |-> Found(kindList)]
          /\ files = [k \in { AppKey(kl) : kl \in AppKinds } |->
                         IF k = AppKey(kindList) THEN Record(0, Found(kindList))
                         ELSE NoFile]
          /\ lists = [module |-> Keys(Found(kindList)), of |-> "", genrule |-> <<>>]
    /\ screens = <<"module">>
    /\ dialog = NoDialog
    /\ loop = LoopIdle
    /\ threads = <<>>
    /\ now = 0
    /\ dirExists = TRUE
    /\ saved = NoSave
    /\ call = NoCall
    /\ asked = NoAsk
    /\ main = MainIdle
    /\ FuzzyIdle
    /\ ParseIdle
    /\ CmdIdle

Top == screens[Len(screens)]

\* the control loop is free to take the next message or callback
Free == loop.pc = "idle"

\* refresh_targets, statement by statement, for the thread that runs it.
\* bust_cache(self._cache_key, self.scope, self.kinds): with the cache root
\* in place, the file of the key is unlinked
RefreshBust ==
    /\ files' = [files EXCEPT ![AppKey(app.kinds)] = NoFile]
    /\ UNCHANGED <<app, now, dirExists, saved, call>>

\* self.targets = parse_query_output(output)
RefreshAssign(index) ==
    /\ app' = [app EXCEPT !.targets = index]
    /\ UNCHANGED cacheVars

\* save_cache(self._cache_key, self.scope, self.kinds, self.targets): with
\* the cache root in place and a disk that takes the write, the record is
\* written to the file of the key
RefreshSave ==
    /\ files' = [files EXCEPT ![AppKey(app.kinds)] =
                    Written(files[AppKey(app.kinds)], "none", now, app.targets)]
    /\ UNCHANGED <<app, now, dirExists, saved, call>>

\* a refresh_targets without its try/except: it goes on after a failed query
AfterQueryGoesOn(outcome) == [pc |-> "assign", out |-> outcome.index]

\* the thread's next position after the query: a failed query skips to the
\* end of refresh_targets (except Exception: pass)
AfterQuery(outcome) ==
    IF outcome.ok THEN [pc |-> "assign", out |-> outcome.index]
    ELSE [pc |-> "end", out |-> EmptyIndex]

\* ctrl+f on ModuleScreen or GenruleScreen: action_refresh_query under
\* @work(exclusive=True, thread=True) starts a thread and returns.
CtrlF ==
    /\ Free
    /\ Top \in {"module", "genrule"}
    /\ Len(threads) < MaxThreads
    /\ threads' = Append(threads, [node |-> Top, pc |-> "loading", out |-> EmptyIndex,
                                    ok |-> TRUE])
    /\ UNCHANGED <<app, screens, lists, dialog, loop, cacheVars>>

\* thread i moves on to position `to`; ok tells whether the query of its
\* refresh has exited successfully (TRUE until the query has run)
Moved(i, to) ==
    [threads EXCEPT ![i] = [node |-> threads[i].node, pc |-> to.pc, out |-> to.out,
                            ok |-> threads[i].ok]]

\* self.app.call_from_thread(set_loading, True)
WorkerLoading(i) ==
    /\ threads[i].pc = "loading"
    /\ Free
    /\ threads' = Moved(i, [pc |-> "bust", out |-> EmptyIndex])
    /\ UNCHANGED <<app, screens, lists, dialog, loop, cacheVars>>

\* self.app.refresh_targets() in the worker thread
WorkerBust(i) ==
    /\ threads[i].pc = "bust"
    /\ RefreshBust
    /\ threads' = Moved(i, [pc |-> "query", out |-> EmptyIndex])
    /\ UNCHANGED <<screens, lists, dialog, loop>>

WorkerQuery(i) ==
    /\ threads[i].pc = "query"
    /\ \E outcome \in QueryOutcomes(app.kinds) :
          threads' = [Moved(i, AfterQuery(outcome)) EXCEPT ![i].ok = outcome.ok]
    /\ UNCHANGED <<app, screens, lists, dialog, loop, cacheVars>>

WorkerAssign(i) ==
    /\ threads[i].pc = "assign"
    /\ RefreshAssign(threads[i].out)
    /\ threads' = Moved(i, [pc |-> "save", out |-> EmptyIndex])
    /\ UNCHANGED <<screens, lists, dialog, loop>>

WorkerSave(i) ==
    /\ threads[i].pc = "save"
    /\ RefreshSave
    /\ threads' = Moved(i, [pc |-> "end", out |-> EmptyIndex])
    /\ UNCHANGED <<screens, lists, dialog, loop>>

\* the threads without thread i
Without(i) == [j \in 1..(Len(threads) - 1) |-> IF j < i THEN threads[j] ELSE threads[j + 1]]

\* self.app.call_from_thread(on_done): the control loop runs on_done, which
\* gives the screen's list the items of app.targets as they are now; then
\* the thread ends. A GenruleScreen that was popped has no list any more.
WorkerDone(i) ==
    /\ threads[i].pc = "end"
    /\ Free
    /\ lists' = IF threads[i].node = "module"
                THEN [lists EXCEPT !.module = Keys(app.targets)]
                ELSE IF \E j \in 1..Len(screens) : screens[j] = "genrule"
                THEN [lists EXCEPT !.genrule = RulesOf(app.targets, lists.of)]
                ELSE lists
    /\ threads' = Without(i)
    /\ UNCHANGED <<app, screens, dialog, loop, cacheVars>>

\* enter on ModuleScreen with the cursor on the first row: action_confirm
\* pushes GenruleScreen(module=item), whose compose reads the module's rules
\* from app.targets
Confirm ==
    /\ Free
    /\ Top = "module"
    /\ lists.module # <<>>
    /\ screens' = Append(screens, "genrule")
    /\ lists' = [lists EXCEPT !.of = lists.module[1],
                              !.genrule = RulesOf(app.targets, lists.module[1])]
    /\ UNCHANGED <<app, dialog, loop, threads, cacheVars>>

\* The screens below the top one; the workers of a screen that leaves are
\* marked cancelled and their threads go on, without a screen to update.
Popped ==
    /\ screens' = SubSeq(screens, 1, Len(screens) - 1)
    /\ threads' = [i \in 1..Len(threads) |->
                     IF threads[i].node = Top
                     THEN [threads[i] EXCEPT !.node = "popped"]
                     ELSE threads[i]]

\* escape on GenruleScreen: action_go_back
GoBack ==
    /\ Free
    /\ Top = "genrule"
    /\ Popped
    /\ lists' = [lists EXCEPT !.of = "", !.genrule = <<>>]
    /\ UNCHANGED <<app, dialog, loop, cacheVars>>

\* ctrl+k: action_toggle_kinds pushes KindSelectScreen, whose on_mount
\* starts _fetch_kinds in a thread
ToggleKinds ==
    /\ Free
    /\ Top \in {"module", "genrule"}
    /\ screens' = Append(screens, "kinds")
    /\ dialog' = [fetch |-> "running", offered |-> {}, selected |-> {}]
    /\ UNCHANGED <<app, lists, loop, threads, cacheVars>>

\* _fetch_kinds in its thread: the kinds query gives nothing (it failed) or
\* all kinds; then call_from_thread(_populate_list, ...) lists them together
\* with app.kinds, those of app.kinds selected
FetchKinds ==
    /\ dialog.fetch = "running"
    /\ Free
    /\ \E found \in { {}, KindNames } :
          dialog' = [fetch |-> "listed",
                     offered |-> found \cup KindSet(app.kinds),
                     selected |-> KindSet(app.kinds)]
    /\ UNCHANGED <<app, screens, lists, loop, threads, cacheVars>>

\* space on an option of the SelectionList
ToggleSelection(k) ==
    /\ Free
    /\ Top = "kinds"
    /\ k \in dialog.offered
    /\ dialog' = [dialog EXCEPT !.selected =
                     IF k \in dialog.selected THEN dialog.selected \ {k}
                     ELSE dialog.selected \cup {k}]
    /\ UNCHANGED <<app, screens, lists, loop, threads, cacheVars>>

\* self.dismiss()
Dismissed ==
    /\ Popped
    /\ dialog' = NoDialog

\* escape on KindSelectScreen: action_cancel
Cancel ==
    /\ Free
    /\ Top = "kinds"
    /\ Dismissed
    /\ UNCHANGED <<app, lists, loop, cacheVars>>

\* the selection of the SelectionList taken as it is
SelectedAsGiven(selection) == KindList(selection)

\* selected_kinds in action_submit: the selection, or ["genrule"] when
\* nothing is selected
SelectedKinds(selection) ==
    IF selection = {} THEN <<"genrule">> ELSE KindList(selection)

\* enter on KindSelectScreen: action_submit. An empty selection counts as
\* ["genrule"]. With the same kinds as before it only dismisses; otherwise
\* it sets app.kinds (watch_kinds writes them to .bzlrc) and calls
\* self.app.refresh_targets() in the handler.
Submit ==
    /\ Free
    /\ Top = "kinds"
    /\ LET selected_kinds == SelectedKinds(dialog.selected)
       IN  IF KindSet(selected_kinds) # KindSet(app.kinds)
           THEN /\ app' = [app EXCEPT !.kinds = selected_kinds]
                /\ loop' = [pc |-> "bust", out |-> EmptyIndex, ok |-> TRUE]
                /\ UNCHANGED <<screens, dialog, threads>>
           ELSE /\ Dismissed
                /\ UNCHANGED <<app, loop>>
    /\ UNCHANGED <<lists, cacheVars>>

\* self.app.refresh_targets() inside action_submit, on the control loop
LoopBust ==
    /\ loop.pc = "bust"
    /\ RefreshBust
    /\ loop' = [pc |-> "query", out |-> EmptyIndex, ok |-> loop.ok]
    /\ UNCHANGED <<screens, lists, dialog, threads>>

LoopQuery ==
    /\ loop.pc = "query"
    /\ \E outcome \in QueryOutcomes(app.kinds) :
          loop' = [pc |-> AfterQuery(outcome).pc, out |-> AfterQuery(outcome).out,
                   ok |-> outcome.ok]
    /\ UNCHANGED <<app, screens, lists, dialog, threads, cacheVars>>

LoopAssign ==
    /\ loop.pc = "assign"
    /\ RefreshAssign(loop.out)
    /\ loop' = [pc |-> "save", out |-> EmptyIndex, ok |-> loop.ok]
    /\ UNCHANGED <<screens, lists, dialog, threads>>

LoopSave ==
    /\ loop.pc = "save"
    /\ RefreshSave
    /\ loop' = [pc |-> "end", out |-> EmptyIndex, ok |-> loop.ok]
    /\ UNCHANGED <<screens, lists, dialog, threads>>

\* The rest of action_submit: self.app.screen is the KindSelectScreen
\* itself, which has no action_refresh_query, so nothing is refreshed; then
\* self.dismiss().
LoopEnd ==
    /\ loop.pc = "end"
    /\ Dismissed
    /\ loop' = LoopIdle
    /\ UNCHANGED <<app, lists, cacheVars>>

AppNext ==
    \/ CtrlF /\ UNCHANGED besidesApp
    \/ \E i \in 1..Len(threads) : WorkerLoading(i) /\ UNCHANGED besidesApp
    \/ \E i \in 1..Len(threads) : WorkerBust(i) /\ UNCHANGED besidesApp
    \/ \E i \in 1..Len(threads) : WorkerQuery(i) /\ UNCHANGED besidesApp
    \/ \E i \in 1..Len(threads) : WorkerAssign(i) /\ UNCHANGED besidesApp
    \/ \E i \in 1..Len(threads) : WorkerSave(i) /\ UNCHANGED besidesApp
    \/ \E i \in 1..Len(threads) : WorkerDone(i) /\ UNCHANGED besidesApp
    \/ Confirm /\ UNCHANGED besidesApp
    \/ GoBack /\ UNCHANGED besidesApp
    \/ ToggleKinds /\ UNCHANGED besidesApp
    \/ FetchKinds /\ UNCHANGED besidesApp
    \/ \E k \in Toggled : ToggleSelection(k) /\ UNCHANGED besidesApp
    \/ Cancel /\ UNCHANGED besidesApp
    \/ Submit /\ UNCHANGED besidesApp
    \/ LoopBust /\ UNCHANGED besidesApp
    \/ LoopQuery /\ UNCHANGED besidesApp
    \/ LoopAssign /\ UNCHANGED besidesApp
    \/ LoopSave /\ UNCHANGED besidesApp
    \/ LoopEnd /\ UNCHANGED besidesApp

SpecApp == AppInit /\ [][AppNext]_vars

-----------------------------------------------------------------------------
(* Startup: main() of __main__.py, from the cache read to the launch       *)
(*                                                                         *)
(* main.steps lists what main() has done so far: "read" (load_cache        *)
(* returned), "query" (the discovery tool was run), "parse"                *)
(* (parse_query_output), "write" (save_cache returned).                    *)

\* what the cache file of the run's key holds when main() starts
MainDocs == {NoFile} \cup { Record(0, t) : t \in TargetIndexes } \cup ForeignDocs

\* the discovery tool fails, or exits successfully with an output that
\* parses to the index
MainQueryOutcomes ==
    {[ok |-> FALSE, index |-> EmptyIndex]} \cup { [ok |-> TRUE, index |-> t] : t \in TargetIndexes }

\* main() has parsed the arguments and .bzlrc: kinds and ttl_seconds are
\* set, the local host is used, nothing is launched yet.
MainInit ==
    /\ now \in 0..MaxTime
    /\ dirExists \in BOOLEAN
    /\ \E kinds \in KindLists, ttl \in Ttls, doc \in MainDocs :
          /\ files = [k \in CacheKeys |-> IF dirExists THEN doc ELSE NoFile]
          /\ main = [pc |-> "load", kinds |-> kinds, ttl |-> ttl,
                     before |-> (IF dirExists THEN doc ELSE NoFile), hit |-> FALSE,
                     ok |-> FALSE, targets |-> EmptyIndex, steps |-> <<>>]
    /\ saved = NoSave
    /\ call = NoCall
    /\ asked = NoAsk
    /\ FuzzyIdle
    /\ ParseIdle
    /\ CmdIdle
    /\ AppIdle

MainKey == CacheKeyOf(NoHost, "//...", main.kinds)

\* main() going to the query whatever the cache read returned
AfterLoadAlwaysQueries(entry) == "query"

\* if cached: targets = cached.targets, else the query
AfterLoad(entry) == IF entry.hit THEN "launch" ELSE "query"

\* if not targets: print("No targets found."); sys.exit(1)
AfterParse(targets) == IF targets = EmptyIndex THEN "exit1" ELSE "save"

\* cached = load_cache(host_key, args.scope, kinds, ttl_seconds); an OSError
\* of the cache root's mkdir is not caught and ends main() with a traceback
MainLoad(made) ==
    /\ main.pc = "load"
    /\ load_cache(NoHost, "//...", main.kinds, main.ttl, made)
    /\ main' = IF call'.raised
               THEN [main EXCEPT !.pc = "crashed"]
               ELSE [main EXCEPT !.pc = AfterLoad(call'),
                                 !.hit = call'.hit,
                                 !.targets = call'.targets,
                                 !.steps = Append(@, "read")]
    /\ UNCHANGED app

\* output = query_local(args.scope, kinds) inside try; except Exception:
\* print the failure, sys.exit(1)
MainQuery(outcome) ==
    /\ main.pc = "query"
    /\ main' = [main EXCEPT !.pc = IF outcome.ok THEN "parse" ELSE "exit1",
                            !.ok = outcome.ok,
                            !.targets = outcome.index,
                            !.steps = Append(@, "query")]
    /\ UNCHANGED <<app, cacheVars>>

\* targets = parse_query_output(output), then the test for an empty index
MainParse ==
    /\ main.pc = "parse"
    /\ main' = [main EXCEPT !.pc = AfterParse(main.targets),
                            !.steps = Append(@, "parse")]
    /\ UNCHANGED <<app, cacheVars>>

\* save_cache(host_key, args.scope, kinds, targets)
MainSave(made, fault) ==
    /\ main.pc = "save"
    /\ save_cache(NoHost, "//...", main.kinds, main.targets, made, fault, FALSE)
    /\ main' = IF call'.raised
               THEN [main EXCEPT !.pc = "crashed"]
               ELSE [main EXCEPT !.pc = "launch", !.steps = Append(@, "write")]
    /\ UNCHANGED app

\* app = BzlApp(targets=targets, ..., kinds=kinds); app.run()
MainLaunch ==
    /\ main.pc = "launch"
    /\ app' = [kinds |-> main.kinds, targets |-> main.targets]
    /\ main' = [main EXCEPT !.pc = "running"]
    /\ UNCHANGED cacheVars

MainNext ==
    \/ \E made \in MkdirOutcomes : MainLoad(made) /\ UNCHANGED besidesMain
    \/ \E outcome \in MainQueryOutcomes : MainQuery(outcome) /\ UNCHANGED besidesMain
    \/ MainParse /\ UNCHANGED besidesMain
    \/ \E made \in MkdirOutcomes, fault \in WriteFaults :
          MainSave(made, fault) /\ UNCHANGED besidesMain
    \/ MainLaunch /\ UNCHANGED besidesMain

SpecMain == MainInit /\ [][MainNext]_vars

-----------------------------------------------------------------------------
(* FuzzyList operations                                                    *)

\* FuzzyList.__init__(items); the cache is not touched by the selector.
FuzzyInit ==
    \E items \in Sources :
        /\ all_items = items
        /\ filter = <<>>
        /\ cursor = 0
        /\ filtered = items
        /\ last = [op |-> "init"]
        /\ now = 0
        /\ dirExists = FALSE
        /\ files = [k \in CacheKeys |-> NoFile]
        /\ saved = NoSave
        /\ call = NoCall
        /\ asked = NoAsk
        /\ main = MainIdle
        /\ ParseIdle
        /\ CmdIdle
        /\ AppIdle

set_filter(query) ==
    /\ filter' = query
    /\ filtered' = fuzzy_filter(query, all_items)
    /\ cursor' = 0
    /\ last' = [op |-> "set_filter"]
    /\ UNCHANGED all_items

\* move_up wrapping from the first row to the last
move_up_wraps ==
    /\ cursor' = IF cursor > 0 THEN cursor - 1 ELSE Max(0, Len(filtered) - 1)
    /\ last' = [op |-> "move_up"]
    /\ UNCHANGED <<all_items, filter, filtered>>

\* move_down guarded by cursor < len(filtered)
move_down_off_by_one ==
    /\ cursor' = IF cursor < Len(filtered) THEN cursor + 1 ELSE cursor
    /\ last' = [op |-> "move_down"]
    /\ UNCHANGED <<all_items, filter, filtered>>

move_up ==
    /\ cursor' = IF cursor > 0 THEN cursor - 1 ELSE cursor
    /\ last' = [op |-> "move_up"]
    /\ UNCHANGED <<all_items, filter, filtered>>

move_down ==
    /\ cursor' = IF cursor < Len(filtered) - 1 THEN cursor + 1 ELSE cursor
    /\ last' = [op |-> "move_down"]
    /\ UNCHANGED <<all_items, filter, filtered>>

\* update_items showing the new source unfiltered
update_items_unfiltered(items) ==
    /\ all_items' = items
    /\ filtered' = items
    /\ cursor' = 0
    /\ last' = [op |-> "update_items"]
    /\ UNCHANGED filter

update_items(items) ==
    /\ all_items' = items
    /\ filtered' = fuzzy_filter(filter, items)
    /\ cursor' = 0
    /\ last' = [op |-> "update_items"]
    /\ UNCHANGED filter

render(sizeHeight) ==
    /\ last' = [op |-> "render", view |-> Render(cursor, sizeHeight, filtered)]
    /\ UNCHANGED <<all_items, filter, cursor, filtered>>

FuzzyNext ==
    \/ \E q \in QueryTexts : set_filter(q) /\ UNCHANGED besidesFuzzy
    \/ move_up /\ UNCHANGED besidesFuzzy
    \/ move_down /\ UNCHANGED besidesFuzzy
    \/ \E items \in Sources : update_items(items) /\ UNCHANGED besidesFuzzy
    \/ \E h \in 0..MaxHeight : render(h) /\ UNCHANGED besidesFuzzy


SpecFuzzy == FuzzyInit /\ [][FuzzyNext]_vars

-----------------------------------------------------------------------------
(* Properties of the selector                                              *)

\* C1: in every reachable state of the selector, a non-empty filtered view
\* has its cursor inside it: 0 <= cursor < len(filtered).
C1_CursorInBounds ==
    filtered # <<>> => (0 <= cursor /\ cursor < Len(filtered))

C1_Witness ==
    /\ last.op = "move_down"
    /\ Len(filtered) >= 3
    /\ cursor = Len(filtered) - 1

\* Reference reading of the filter contract, written without the operators
\* fuzzy_filter is built from.
SameLetter(c, d) == c = d \/ {c, d} \in { {"a", "A"}, {"b", "B"} }

\* the whitespace-separated tokens of text: its maximal runs of non-blanks
TokensOf(text) ==
    { SubSeq(text, i, j) : <<i, j>> \in
        { p \in (1..Len(text)) \X (1..Len(text)) :
            /\ p[1] <= p[2]
            /\ \A m \in p[1]..p[2] : text[m] # " "
            /\ (p[1] = 1 \/ text[p[1] - 1] = " ")
            /\ (p[2] = Len(text) \/ text[p[2] + 1] = " ") } }

HasToken(item, t) ==
    \E k \in 0..(Len(item) - Len(t)) :
        \A m \in 1..Len(t) : SameLetter(item[k + m], t[m])

Matches(item, text) == \A t \in TokensOf(text) : HasToken(item, t)

\* C2: after set_filter(text) the filtered view is exactly the source items
\* that contain, ignoring case, every whitespace-separated token of text, in
\* source order, and the cursor is 0; a blank text gives the whole source.
C2_SetFilterExact ==
    last.op = "set_filter" =>
        /\ cursor = 0
        /\ filtered = SelectSeq(all_items, LAMBDA item : Matches(item, filter))
        /\ (\A i \in 1..Len(filter) : filter[i] = " ") => filtered = all_items

C2_Witness ==
    /\ last.op = "set_filter"
    /\ filter = <<"a", "b", " ", " ", "a">>
    /\ filtered # <<>>
    /\ Len(filtered) < Len(all_items)

InView(c) == 0 <= c /\ c <= Len(filtered) - 1

\* C3: move_up and move_down move the cursor by exactly one position when
\* the result stays inside [0, len(filtered)-1] and leave it alone otherwise
\* (no wraparound, no-op on an empty view); neither changes the source, the
\* filter text or the filtered view.
C3_MoveClamped ==
    [][ /\ (last'.op = "move_up" =>
                cursor' = IF InView(cursor - 1) THEN cursor - 1 ELSE cursor)
        /\ (last'.op = "move_down" =>
                cursor' = IF InView(cursor + 1) THEN cursor + 1 ELSE cursor)
        /\ (last'.op \in {"move_up", "move_down"} =>
                UNCHANGED <<all_items, filter, filtered>>) ]_vars

C3_Witness ==
    /\ last.op = "move_up"
    /\ Len(filtered) >= 2
    /\ cursor = 0

\* C4: the window render computes covers only indices inside
\* [0, len(filtered)), and when len(filtered) <= height it is the entire
\* filtered sequence.
C4_WindowInRange ==
    last.op = "render" =>
        LET v == last.view
            n == Len(filtered)
        IN  /\ v.height >= 1
            /\ \A k \in 1..Len(v.rows) :
                   /\ 0 <= v.rows[k].idx /\ v.rows[k].idx < n
                   /\ v.rows[k].item = filtered[v.rows[k].idx + 1]
            /\ n <= v.height =>
                   /\ Len(v.rows) = n
                   /\ \A k \in 1..n : v.rows[k].idx = k - 1

C4_Witness ==
    /\ last.op = "render"
    /\ Len(filtered) >= 3
    /\ Len(filtered) <= last.view.height
    /\ cursor = Len(filtered) - 1

Clamp(x, lo, hi) == IF x < lo THEN lo ELSE IF x > hi THEN hi ELSE x

\* C5: for a non-empty filtered view the rendered window is contiguous, has
\* exactly min(height, len(filtered)) rows, starts at cursor - height//2
\* clamped into [0, max(0, len(filtered) - height)], contains the cursor row
\* and marks exactly that row as selected.
C5_WindowShape ==
    (last.op = "render" /\ filtered # <<>>) =>
        LET v == last.view
            n == Len(filtered)
            h == v.height
        IN  /\ h >= 1
            /\ Len(v.rows) = (IF h < n THEN h ELSE n)
            /\ v.start = Clamp(cursor - (h \div 2), 0, IF n - h > 0 THEN n - h ELSE 0)
            /\ \A k \in 1..Len(v.rows) : v.rows[k].idx = v.start + k - 1
            /\ \E k \in 1..Len(v.rows) : v.rows[k].idx = cursor
            /\ \A k \in 1..Len(v.rows) : v.rows[k].sel <=> (v.rows[k].idx = cursor)
            /\ Cardinality({ k \in 1..Len(v.rows) : v.rows[k].sel }) = 1

C5_Witness ==
    /\ last.op = "render"
    /\ last.view.height >= 2
    /\ last.view.start > 0
    /\ last.view.end < Len(filtered)

\* C25: in every state reachable by set_filter, move_up, move_down and
\* update_items the filtered view equals fuzzy_filter(filter text, source);
\* update_items keeps the filter text of the last set_filter, re-applies it
\* to the new source and puts the cursor on 0.
C25_ViewIsFilterOfSource ==
    /\ [](filtered = fuzzy_filter(filter, all_items))
    /\ [][ last'.op = "update_items" =>
              /\ filter' = filter
              /\ filtered' = fuzzy_filter(filter, all_items')
              /\ cursor' = 0 ]_vars

C25_Witness ==
    /\ last.op = "update_items"
    /\ \E i \in 1..Len(filter) : filter[i] # " "
    /\ filtered # <<>>
    /\ Len(filtered) < Len(all_items)

-----------------------------------------------------------------------------
(* Properties of the cache                                                 *)

\* a complete record of the current format version with a numeric timestamp
IsCurrentRecord(doc) ==
    /\ doc.state = "json"
    /\ doc.isObject
    /\ doc.has = AllFields
    /\ doc.version = _CACHE_VERSION
    /\ doc.tsNumeric

\* C6: for every ttl <= 0 load_cache returns absent (and raises nothing),
\* whatever the cache file holds, a record written this instant included.
C6_TtlOff ==
    (call.op = "load_cache" /\ call.ttl <= 0) => (~call.hit /\ ~call.raised)

C6_Witness ==
    /\ call.op = "load_cache"
    /\ call.ttl <= 0
    /\ IsCurrentRecord(files[call.key])
    /\ files[call.key].timestamp = now
    /\ files[call.key].targets = IndexB

\* C7 as claimed: a load_cache that follows a save_cache(.., T) of the same
\* key, with no write or invalidate of the key in between and a ttl larger
\* than the time since the save, returns an entry whose targets equal T.
C7_RoundTripAnySave ==
    (/\ call.op = "load_cache"
     /\ saved.done
     /\ saved.key = call.key
     /\ call.ttl > now - saved.at)
    => (~call.raised /\ call.hit /\ call.targets = saved.targets)

\* C7, amended: the same, for a save_cache whose write succeeded (a write
\* failure is swallowed by save_cache and leaves the old file or a truncated
\* one behind).
C7_RoundTripWritten ==
    (/\ call.op = "load_cache"
     /\ saved.done
     /\ saved.wrote
     /\ saved.key = call.key
     /\ call.ttl > now - saved.at)
    => (~call.raised /\ call.hit /\ call.targets = saved.targets)

C7_Witness ==
    /\ call.op = "load_cache"
    /\ saved.done
    /\ saved.wrote
    /\ saved.key = call.key
    /\ saved.targets = IndexB
    /\ now - saved.at = 1
    /\ call.ttl = 2
    /\ call.hit

\* C8: for a record of the current format version captured at time c, a
\* load_cache at time now with ttl > 0 returns the record if and only if
\* now - c <= ttl (now - c = ttl is still fresh), so the ttl of the call
\* alone decides between fresh and stale; and no load_cache changes or
\* deletes a cache file.
C8_FreshIffWithinTtl ==
    [][ call'.op = "load_cache" =>
          /\ files' = files
          /\ LET doc == files[call'.key]
             IN  (call'.ttl > 0 /\ IsCurrentRecord(doc)) =>
                    /\ ~call'.raised
                    /\ call'.hit <=> (now - doc.timestamp <= call'.ttl)
                    /\ call'.hit => /\ call'.targets = doc.targets
                                    /\ call'.timestamp = doc.timestamp ]_vars

C8_Witness ==
    /\ call.op = "load_cache"
    /\ call.hit
    /\ call.ttl = 2
    /\ now - call.timestamp = call.ttl

\* C9 as claimed: load_cache never lets an error out, and an unreadable
\* file, invalid JSON, JSON of the wrong shape or another format version
\* give absent, like a missing file.
C9_LoadNeverRaises ==
    call.op = "load_cache" =>
        /\ ~call.raised
        /\ ~IsCurrentRecord(files[call.key]) => ~call.hit

\* The part of C9 that holds: whenever load_cache returns, a file that is
\* not a complete current record gives absent.
C9_CorruptIsMiss ==
    (call.op = "load_cache" /\ ~call.raised /\ ~IsCurrentRecord(files[call.key]))
    => ~call.hit

\* C10 as claimed: save_cache never lets an error out, whatever fails while
\* the record is persisted.
C10_SaveNeverRaises ==
    call.op = "save_cache" => ~call.raised

\* C26: the cache root directory is created only by a write: a step of
\* load_cache or bust_cache leaves the existence of the root as it was, so a
\* root that does not exist still does not exist after reads and
\* invalidations.
C26_RootMadeOnlyByWrite ==
    [][ call'.op \in {"load_cache", "bust_cache"} => dirExists' = dirExists ]_vars

-----------------------------------------------------------------------------
(* Properties of the cache under several keys                              *)

\* C11 as claimed: bust_cache succeeds, with or without a record for the
\* key; it leaves no record for its key and leaves the files of all other
\* keys as they were; and a load_cache that finds no file returns absent
\* whatever its ttl, a file appearing again only by a save_cache of that key.
C11_BustSucceedsAndClears ==
    [][ /\ call'.op = "bust_cache" =>
              /\ ~call'.raised
              /\ files'[call'.key] = NoFile
              /\ \A k \in KeyPool \ {call'.key} : files'[k] = files[k]
        /\ (call'.op = "load_cache" /\ files[call'.key] = NoFile) =>
              (~call'.raised /\ ~call'.hit)
        /\ \A k \in KeyPool :
              (files[k] = NoFile /\ files'[k] # NoFile) =>
                  (call'.op = "save_cache" /\ call'.key = k) ]_vars

\* The part of C11 that holds: a bust_cache that returns has removed the
\* file of its key and no other, a load_cache that returns and finds no file
\* gives absent for every ttl, and only save_cache of a key brings its file
\* back.
C11_BustClearsOwnKey ==
    [][ /\ (call'.op = "bust_cache" /\ ~call'.raised) =>
              /\ files'[call'.key] = NoFile
              /\ \A k \in KeyPool \ {call'.key} : files'[k] = files[k]
        /\ (call'.op = "load_cache" /\ ~call'.raised /\ files[call'.key] = NoFile) =>
              ~call'.hit
        /\ \A k \in KeyPool :
              (files[k] = NoFile /\ files'[k] # NoFile) =>
                  (call'.op = "save_cache" /\ call'.key = k) ]_vars

\* a bust_cache that returned while another key holds a record
C11_BustWithOtherRecord ==
    /\ call.op = "bust_cache"
    /\ ~call.raised
    /\ \E k \in KeyPool \ {call.key} : IsCurrentRecord(files[k])

\* kinds lists with the same members, each as often
SameKinds(k1, k2) ==
    /\ Len(k1) = Len(k2)
    /\ \A x \in {k1[i] : i \in 1..Len(k1)} \cup {k2[i] : i \in 1..Len(k2)} :
          Cardinality({i \in 1..Len(k1) : k1[i] = x})
              = Cardinality({i \in 1..Len(k2) : k2[i] = x})

\* arguments that name the same (identity-key or 'local', scope, kinds)
SameTuple(a, b) ==
    /\ (IF a[1] = NoHost THEN "local" ELSE a[1]) = (IF b[1] = NoHost THEN "local" ELSE b[1])
    /\ a[2] = b[2]
    /\ SameKinds(a[3], b[3])

\* C12: a load_cache with ttl on that returns reads what the last save_cache
\* of the same (identity-key or 'local', scope, kinds) wrote, in whatever
\* order either call lists the kinds: with a save that wrote and is the last
\* write under its tuple, the read returns that save's targets, not those of
\* an earlier save; and the key of a call is the same for every order of
\* its kinds.
C12_KeyIgnoresKindOrder ==
    /\ (/\ call.op = "load_cache"
        /\ ~call.raised
        /\ call.ttl > 0
        /\ saved.done
        /\ saved.wrote
        /\ SameTuple(asked.wroteAs, asked.readAs))
       => (call.hit /\ call.targets = saved.targets)
    /\ (call.op = "load_cache" /\ saved.done /\ SameTuple(asked.wroteAs, asked.readAs))
       => call.key = saved.key

\* a record written as (genrule, py_test) for host build1 and read back as
\* (py_test, genrule), while the local key holds another record
C12_Witness ==
    /\ call.op = "load_cache"
    /\ call.hit
    /\ saved.done
    /\ saved.wrote
    /\ asked.wroteAs[3] = <<"genrule", "py_test">>
    /\ asked.readAs[3] = <<"py_test", "genrule">>
    /\ asked.wroteAs[1] = "build1"
    /\ call.targets = IndexB
    /\ files[CacheKeyOf(NoHost, "//...", <<"genrule", "py_test">>)].targets = IndexA

-----------------------------------------------------------------------------
(* Properties of parse_query_output                                        *)

\* parse_query_output has returned for the text
Parsed == parsed.stage \in {"parsed", "reparsed"}

\* the (namespace, item) pairs of an index
IndexPairs(index) ==
    UNION { { <<index[i][1], index[i][2][j]>> : j \in 1..Len(index[i][2]) } :
            i \in 1..Len(index) }

\* The pairs a line stands for: none unless, trimmed, it starts with "//";
\* then one pair for the ':' that has no ':' after it, if there is one.
LinePairs(line) ==
    LET t == Strip(line)
    IN  IF Len(t) >= 2 /\ t[1] = "/" /\ t[2] = "/"
        THEN { <<SubSeq(t, 1, k - 1), SubSeq(t, k + 1, Len(t))>> :
               k \in { k \in 1..Len(t) :
                          t[k] = ":" /\ \A j \in (k + 1)..Len(t) : t[j] # ":" } }
        ELSE {}

\* C13: for every text, parse_query_output returns, and the (namespace,
\* item) pairs of its result are exactly the pairs of the lines that, once
\* trimmed, start with "//" and contain ':', each cut at its last ':'; all
\* other lines give nothing, so a text without such a line gives the empty
\* index.
C13_PairsOfSignificantLines ==
    Parsed =>
        IndexPairs(parsed.index)
            = UNION { LinePairs(parsed.lines[i]) : i \in 1..Len(parsed.lines) }

\* a text with a two-':' label, a padded label and a line without ':'
C13_Witness ==
    /\ parsed.stage = "parsed"
    /\ \E i \in 1..Len(parsed.lines) : parsed.lines[i] = <<"/", "/", "a", "b">>
    /\ \E i \in 1..Len(parsed.lines) : parsed.lines[i] = <<" ", "/", "/", "b", ":", "x", "\t">>
    /\ IndexPairs(parsed.index)
          = { <<<<"/", "/", "a", ":", "b">>, <<"x">>>>, <<<<"/", "/", "b">>, <<"x">>>> }

\* C14 as claimed: no index returned by parse_query_output has an empty
\* namespace, a namespace with no items, or an empty item.
C14_NoEmptyNames ==
    Parsed =>
        \A i \in 1..Len(parsed.index) :
            /\ parsed.index[i][1] # <<>>
            /\ parsed.index[i][2] # <<>>
            /\ \A j \in 1..Len(parsed.index[i][2]) : parsed.index[i][2][j] # <<>>

\* The part of C14 that holds: no empty namespace and no namespace without
\* items.
C14_NoEmptyNamespace ==
    Parsed =>
        \A i \in 1..Len(parsed.index) :
            parsed.index[i][1] # <<>> /\ parsed.index[i][2] # <<>>

\* C15 as claimed: no namespace of a returned index lists an item twice.
C15_ItemsDistinct ==
    Parsed =>
        \A i \in 1..Len(parsed.index) :
            \A j, k \in 1..Len(parsed.index[i][2]) :
                j # k => parsed.index[i][2][j] # parsed.index[i][2][k]

\* C16: in a returned index the namespaces are in ascending order, each
\* namespace's items are in ascending order, and the same lines in the
\* opposite order give the same index.
C16_Ascending ==
    Parsed =>
        /\ \A i \in 1..(Len(parsed.index) - 1) :
              StrLess(parsed.index[i][1], parsed.index[i + 1][1])
        /\ \A i \in 1..Len(parsed.index) :
              \A j \in 1..(Len(parsed.index[i][2]) - 1) :
                  ~StrLess(parsed.index[i][2][j + 1], parsed.index[i][2][j])
        /\ parse_query_output(JoinLines(Reversed(parsed.lines), <<"\n">>, TRUE))
              = parsed.index

\* "//b:x" given before "//a:y" and "//a:x"
C16_Witness ==
    /\ parsed.stage = "parsed"
    /\ parsed.lines = << <<" ", "/", "/", "b", ":", "x", "\t">>,
                         <<"/", "/", "a", ":", "y">>,
                         <<"/", "/", "a", ":", "x">> >>
    /\ parsed.index = << << <<"/", "/", "a">>, << <<"x">>, <<"y">> >> >>,
                         << <<"/", "/", "b">>, << <<"x">> >> >> >>

\* C17: the index written back as one "namespace:item" line per item and
\* parsed again is the index that was written.
C17_ReparseIsSame ==
    parsed.stage = "reparsed" => parsed.index = parsed.first

\* an index of two namespaces, one with two items, read back
C17_Witness ==
    /\ parsed.stage = "reparsed"
    /\ Len(parsed.first) = 2
    /\ Len(parsed.first[1][2]) = 2
    /\ parsed.first[1][2][1] # parsed.first[1][2][2]

-----------------------------------------------------------------------------
(* Properties of the query commands                                        *)

\* the pieces of s between occurrences of the character sep
RECURSIVE PiecesFrom(_, _, _, _)
PiecesFrom(s, sep, cur, acc) ==
    IF s = <<>> THEN Append(acc, cur)
    ELSE IF Head(s) = sep THEN PiecesFrom(Tail(s), sep, <<>>, Append(acc, cur))
    ELSE PiecesFrom(Tail(s), sep, Append(cur, Head(s)), acc)

\* s is prefix, something, suffix
Wraps(s, prefix, suffix) ==
    /\ Len(s) >= Len(prefix) + Len(suffix)
    /\ SubSeq(s, 1, Len(prefix)) = prefix
    /\ SubSeq(s, Len(s) - Len(suffix) + 1, Len(s)) = suffix

\* e is kind('<K>', <scope>) where K cut at every '|' gives exactly the
\* kinds, in their order (one kind: K is that kind and has no '|')
IsKindExpr(e, kindList, queryScope) ==
    LET open == <<"k", "i", "n", "d", "(", "'">>
        close == <<"'", ",", " ">> \o queryScope \o <<")">>
    IN  /\ Wraps(e, open, close)
        /\ PiecesFrom(SubSeq(e, Len(open) + 1, Len(e) - Len(close)), "|", <<>>, <<>>)
              = kindList

\* What a POSIX shell reads from one quoted word: the characters between
\* '..' or ".." as they are; an unquoted blank would end the word (shown as
\* the piece "<break>").
RECURSIVE ShellReads(_, _)
ShellReads(s, mode) ==
    IF s = <<>> THEN <<>>
    ELSE IF mode = "plain"
         THEN IF Head(s) = "'" THEN ShellReads(Tail(s), "single")
              ELSE IF Head(s) = "\"" THEN ShellReads(Tail(s), "double")
              ELSE IF Head(s) = " " THEN <<"<break>">> \o ShellReads(Tail(s), "plain")
              ELSE <<Head(s)>> \o ShellReads(Tail(s), "plain")
    ELSE IF mode = "single"
         THEN IF Head(s) = "'" THEN ShellReads(Tail(s), "plain")
              ELSE <<Head(s)>> \o ShellReads(Tail(s), "single")
    ELSE IF Head(s) = "\"" THEN ShellReads(Tail(s), "plain")
         ELSE <<Head(s)>> \o ShellReads(Tail(s), "double")

\* line is: cd <one shell word for remoteDir> && bazel query "<e>" with e
\* the kind expression of kindList and queryScope
IsRemoteLine(line, remoteDir, kindList, queryScope) ==
    LET cd == <<"c", "d", " ">>
        mid == <<" ", "&", "&", " ", "b", "a", "z", "e", "l", " ", "q", "u", "e", "r", "y", " ", "\"">>
    IN  /\ Len(line) > Len(cd)
        /\ SubSeq(line, 1, Len(cd)) = cd
        /\ line[Len(line)] = "\""
        /\ \E k \in (Len(cd) + 1)..(Len(line) - Len(mid)) :
              /\ SubSeq(line, k, k + Len(mid) - 1) = mid
              /\ ShellReads(SubSeq(line, Len(cd) + 1, k - 1), "plain") = remoteDir
              /\ IsKindExpr(SubSeq(line, k + Len(mid), Len(line) - 1), kindList, queryScope)

\* C18: for every scope and non-empty kind list, query_local runs
\* [bazel, query, E] and build_query_cmd returns the 3-element vector
\* [ssh, host, cd <quoted dir> && bazel query "E"], where E is
\* kind('<kinds>', <scope>) with the kinds joined by '|' in the given order,
\* a single kind standing alone without '|'.
C18_SameKindExpression ==
    /\ argv.local # <<>> =>
          /\ Len(argv.local) = 3
          /\ argv.local[1] = <<"b", "a", "z", "e", "l">>
          /\ argv.local[2] = <<"q", "u", "e", "r", "y">>
          /\ IsKindExpr(argv.local[3], request.kinds, request.scope)
    /\ argv.remote # <<>> =>
          /\ Len(argv.remote) = 3
          /\ argv.remote[1] = <<"s", "s", "h">>
          /\ argv.remote[2] = request.host
          /\ IsRemoteLine(argv.remote[3], request.remote_dir, request.kinds, request.scope)
    /\ (argv.local # <<>> /\ argv.remote # <<>>) =>
          Contains(argv.local[3], argv.remote[3])

\* both commands built for three kinds and a directory with a quote in it
C18_Witness ==
    /\ argv.local # <<>>
    /\ argv.remote # <<>>
    /\ request.kinds = << <<"t", "e", "s", "t">>, <<"g", "e", "n", "r", "u", "l", "e">>, <<"t", "e", "s", "t">> >>
    /\ request.remote_dir = <<"/", "a", "'", "b">>

\* both commands built for a single kind
C18_WitnessOneKind ==
    /\ argv.local # <<>>
    /\ argv.remote # <<>>
    /\ Len(request.kinds) = 1
    /\ ~Contains(<<"|">>, argv.remote[3])

-----------------------------------------------------------------------------
(* Properties of the application                                           *)

\* the positions inside refresh_targets
InRefresh == { "bust", "query", "assign", "save" }

\* the number of threads, the control loop included, inside refresh_targets
RefreshRuns ==
    Cardinality({ i \in 1..Len(threads) : threads[i].pc \in InRefresh })
        + (IF loop.pc \in InRefresh THEN 1 ELSE 0)

\* C19 as claimed: at most one run of refresh_targets is in flight at any
\* time, whatever refresh requests arrive meanwhile.
C19_OneRefreshInFlight == RefreshRuns <= 1

\* C20 as claimed: the control loop never runs a discovery query or a cache
\* read or write of an interactive request inside one of its handlers; they
\* run in worker threads.
C20_NoRefreshOnLoop == loop.pc \notin InRefresh

\* a step in which a worker thread assigns app.targets
WorkerWritesTargets == \E i \in 1..Len(threads) : WorkerAssign(i)

\* a step in which some list of a screen is given new items
ListsWritten == lists' # lists

\* C21: app.targets and the lists of the screens are written only by steps
\* of the control loop: a step that assigns app.targets is never a step of a
\* worker thread, and a worker changes a list only through the callback it
\* hands to the control loop while the loop is free.
C21_OnlyLoopWritesTargets ==
    [][ /\ ~WorkerWritesTargets
        /\ (ListsWritten => Free) ]_vars

\* thread i takes a step of a refresh whose query has failed
FailedWorkerStep(i) ==
    /\ ~threads[i].ok \/ threads[i].pc = "query"
    /\ Len(threads') = Len(threads)
    /\ ~threads'[i].ok
    /\ threads'[i].pc # threads[i].pc

\* the control loop takes a step of a refresh whose query has failed
FailedLoopStep == ~loop'.ok /\ loop'.pc # loop.pc

\* C23: when the discovery process fails during a refresh, refresh_targets
\* raises nothing and leaves app.targets as it was: the failing query takes
\* the run straight to the return of refresh_targets, and no step of that
\* run assigns app.targets.
C23_FailedRefreshKeepsTargets ==
    [][ /\ \A i \in 1..Len(threads) :
              FailedWorkerStep(i) => (threads'[i].pc = "end" /\ app' = app)
        /\ FailedLoopStep => (loop'.pc = "end" /\ app' = app) ]_vars

C23_Witness ==
    /\ \E i \in 1..Len(threads) :
          threads[i].pc = "end" /\ ~threads[i].ok /\ threads[i].node = "module"
    /\ app.targets # EmptyIndex
    /\ files[AppKey(app.kinds)] = NoFile

\* the file of the kind list holds a record with targets in it
HoldsTargets(kindList) ==
    /\ IsCurrentRecord(files[AppKey(kindList)])
    /\ files[AppKey(kindList)].targets # EmptyIndex

\* no run of refresh_targets has begun and not yet returned
NoRefreshInFlight == RefreshRuns = 0

\* C27: under every interleaving of refreshes and kind-selection changes, a
\* record in the cache is stored under the key of the kinds its payload was
\* queried with (the query of a kind list gives Found of that list), and
\* with no refresh in flight the record of the app's current kinds, if there
\* is one, holds app.targets.
C27_RecordUnderItsKinds ==
    /\ \A kindList \in AppKinds :
          HoldsTargets(kindList) => files[AppKey(kindList)].targets = Found(kindList)
    /\ (NoRefreshInFlight /\ IsCurrentRecord(files[AppKey(app.kinds)])) =>
          files[AppKey(app.kinds)].targets = app.targets

\* no refresh is in flight: no worker thread is left and the control loop
\* is between two messages
Quiet == threads = <<>> /\ Free

\* C28: whenever no refresh is in flight, the source of the module list on
\* ModuleScreen is the namespaces of app.targets, after any refreshes,
\* pushes and pops, so the module a GenruleScreen was opened with is a
\* namespace of the current index.
C28_ModuleListIsCurrent ==
    Quiet => lists.module = Keys(app.targets)

\* some run of refresh_targets stands at its discovery query
AtQuery == loop.pc = "query" \/ \E i \in 1..Len(threads) : threads[i].pc = "query"

\* C29: started with a non-empty kind list, the app's kind list is
\* non-empty in every reachable state, after any submissions and
\* cancellations of the kind selection (an empty selection counts as
\* ["genrule"]); so a refresh that builds its query finds a first kind
\* (kinds[0]) to build the kind expression from.
C29_KindsNeverEmpty ==
    /\ Len(app.kinds) >= 1
    /\ AtQuery => app.kinds[1] \in KindNames

C29_Witness ==
    /\ Top = "kinds"
    /\ dialog.selected = {}
    /\ loop.pc = "query"
    /\ app.kinds = <<"genrule">>

\* C22: a discovery run that succeeds with an output parsing to an empty
\* index ends in "no targets found"; the empty index is neither installed as
\* app.targets nor written to the cache. For the running application (which
\* main() starts with a non-empty index): app.targets is never the empty
\* index and no cache record holds the empty index.
C22_EmptyResultNotInstalled ==
    /\ app.targets # EmptyIndex
    /\ \A kindList \in AppKinds :
          IsCurrentRecord(files[AppKey(kindList)]) =>
              files[AppKey(kindList)].targets # EmptyIndex

-----------------------------------------------------------------------------
(* Properties of the startup                                               *)

IsPrefix(s, t) == Len(s) <= Len(t) /\ s = SubSeq(t, 1, Len(s))

\* main() has taken the step
Did(step) == \E i \in 1..Len(main.steps) : main.steps[i] = step

\* the cache read has returned absent (None)
ReadAbsent == Did("read") /\ ~main.hit

\* The startup half of C22: a query of main() that succeeds with an output
\* parsing to an empty index ends main() with exit status 1, before the
\* cache write and before BzlApp is built.
StartupEmptyEndsRun ==
    (Did("parse") /\ main.targets = EmptyIndex) =>
        /\ main.pc = "exit1"
        /\ ~Did("write")
        /\ files[MainKey] = main.before
        /\ app.targets = EmptyIndex /\ app.kinds = <<>>

StartupEmptyWitness ==
    /\ Did("parse")
    /\ main.targets = EmptyIndex
    /\ IsCurrentRecord(main.before)

\* C24: at startup the discovery tool is run if and only if the cache read
\* returned absent; the steps of a miss are read, query, parse, write in
\* that order; the cache file is written only after the query has exited
\* successfully and parsed to a non-empty index, and a run ended by a
\* failed query or an empty result has written nothing.
C24_QueryOnlyOnMiss ==
    /\ IsPrefix(main.steps, <<"read", "query", "parse", "write">>)
    /\ Did("query") => ReadAbsent
    /\ ReadAbsent => (Did("query") \/ main.pc = "query")
    /\ Did("write") => (main.ok /\ Did("parse") /\ main.targets # EmptyIndex)
    /\ files[MainKey] # main.before => Did("write")
    /\ main.pc = "exit1" =>
          /\ ~Did("write")
          /\ files[MainKey] = main.before
          /\ ~main.ok \/ main.targets = EmptyIndex

C24_Witness ==
    /\ main.pc = "running"
    /\ main.steps = <<"read", "query", "parse", "write">>
    /\ IsCurrentRecord(main.before)
    /\ files[MainKey] = Record(now, main.targets)
    /\ files[MainKey] # main.before

C24_WitnessHit ==
    /\ main.pc = "running"
    /\ main.steps = <<"read">>
    /\ main.hit
    /\ app.targets = main.before.targets
====
